---- MODULE Spec2Model ----
(***************************************************************************)
(* The iterative PlantUML pipeline of src/software_architect/agent.py:     *)
(*                                                                         *)
(*   root_agent = SequentialAgent[ InputMapper, InitialWriterAgent,        *)
(*                  RefinementLoop = LoopAgent[ CriticAgent, RefinerAgent ] *)
(*                                   max_iterations = 5 ]                  *)
(*                                                                         *)
(* Every agent is one language-model call whose final text is stored in    *)
(* the session state under the agent's output_key; the refiner also holds  *)
(* the tool exit_loop, which sets actions.escalate and so ends the loop.   *)
(* A text is a finite sequence of characters (or of opaque tokens); the    *)
(* empty text is << >>.                                                    *)
(*                                                                         *)
(* The replies of the language model are the inputs of the run.  Spec lets *)
(* the model answer each call as the agent's instruction asks (or raise,   *)
(* or answer with an empty text); SpecAnyLLM lets it answer anything the   *)
(* agent's tools and output allow; FairSpec is Spec with every call        *)
(* returning.                                                              *)
(***************************************************************************)
EXTENDS Naturals, Sequences, FiniteSets

VARIABLES
  user_input,    \* the user's message that starts the run
  state,         \* session state: a dictionary from state key to text
  pc,            \* the sub-agent the orchestrators run next ("end" after the last)
  active,        \* the sub-agents that have been started and have not finished
  prompt,        \* the state values the running agent's instruction was filled with
  times_looped,  \* the LoopAgent's count of completed iterations
  escalate,      \* actions.escalate, as set by exit_loop
  outcome,       \* "running", "completed" or "exception"
  raised,        \* the exception the run ended with, or NoException
  calls,         \* history: number of invocations of every agent
  last_reply,    \* history: the agent that finished last, and the model's reply to it
  doc_at_iteration_start, \* history: current_document when the iteration's critic started
  failures,      \* history: the <<agent, kind>> of every call that raised or came back empty
  sentinel_seen, \* history: the critic has returned the exact completion phrase
  refined,       \* history: number of refiner calls whose text was stored
  weather_city,  \* weather agent: the argument of the last get_weather call
  weather_result, \* weather agent: what that call returned
  authenticated, \* dashboard: st.session_state.authenticated
  user_token,    \* dashboard: st.session_state.user_token, None or a token
  user_data,     \* dashboard: st.session_state.user_data, None or a dictionary
  screen,        \* dashboard: what the last script run rendered
  shown,         \* dashboard: the message the last script run displayed
  requests_sent, \* dashboard history: the API requests the last script run sent
  last_response, \* dashboard history: the server's answer to the last auth request
  submitted,     \* dashboard history: the form submitted in the last script run
  api_last,      \* backend history: the last request handled, and its response
  api_previous   \* backend history: the request handled before it, and its response

vars == <<user_input, state, pc, active, prompt, times_looped, escalate, outcome,
          raised, calls, last_reply, doc_at_iteration_start, failures, sentinel_seen,
          refined, weather_city, weather_result, authenticated, user_token, user_data,
          screen, shown, requests_sent, last_response, submitted, api_last, api_previous>>

pipeline_vars ==
  <<user_input, state, pc, active, prompt, times_looped, escalate, outcome,
    raised, calls, last_reply, doc_at_iteration_start, failures, sentinel_seen, refined>>
weather_vars == <<weather_city, weather_result>>
session_vars == <<authenticated, user_token, user_data>>
dashboard_vars ==
  <<authenticated, user_token, user_data, screen, shown, requests_sent,
    last_response, submitted>>
backend_vars == <<api_last, api_previous>>

----------------------------------------------------------------------------
\* Constants of the source

STATE_INITIAL_TOPIC == "initial_topic"
STATE_CURRENT_DOC == "current_document"
STATE_CRITICISM == "criticism"

COMPLETION_PHRASE ==
  <<"N","o"," ","m","a","j","o","r"," ","i","s","s","u","e","s"," ","f","o","u","n","d",".">>

max_iterations == 5

InputMapper == "InputMapper"
InitialWriterAgent == "InitialWriterAgent"
CriticAgent == "CriticAgent"
RefinerAgent == "RefinerAgent"
Agents == {InputMapper, InitialWriterAgent, CriticAgent, RefinerAgent}

\* (mutant) the critic's output_key is the topic's key
OutputKeyCriticOverTopic(agent) ==
  CASE agent = InputMapper -> STATE_INITIAL_TOPIC
    [] agent = InitialWriterAgent -> STATE_CURRENT_DOC
    [] agent = CriticAgent -> STATE_INITIAL_TOPIC
    [] agent = RefinerAgent -> STATE_CURRENT_DOC

\* output_key of every agent
OutputKey(agent) ==
  CASE agent = InputMapper -> STATE_INITIAL_TOPIC
    [] agent = InitialWriterAgent -> STATE_CURRENT_DOC
    [] agent = CriticAgent -> STATE_CRITICISM
    [] agent = RefinerAgent -> STATE_CURRENT_DOC

\* the {placeholders} of every agent's instruction
Placeholders(agent) ==
  CASE agent = InputMapper -> {}
    [] agent = InitialWriterAgent -> {STATE_INITIAL_TOPIC}
    [] agent = CriticAgent -> {STATE_INITIAL_TOPIC, STATE_CURRENT_DOC}
    [] agent = RefinerAgent -> {STATE_CURRENT_DOC, STATE_CRITICISM}

\* tools of every agent
Tools(agent) == IF agent = RefinerAgent THEN {"exit_loop"} ELSE {}

----------------------------------------------------------------------------
\* Bounds and the inputs drawn from them

NumTopics == 2
NumDocs == 3
MaxSpaces == 2  \* spaces put into a city name
MaxCount == 7   \* the history counters stop counting here

EmptyText == << >>
Digit == <<"1", "2", "3", "4", "5", "6", "7", "8", "9">>
Topics == {<<"topic", Digit[i]>> : i \in 1..NumTopics}
Docs == {<<"@startuml", "v", Digit[i], "@enduml">> : i \in 1..NumDocs}

----------------------------------------------------------------------------
\* Texts: what the language model can reply

Lowers ==
  <<"a","b","c","d","e","f","g","h","i","j","k","l","m",
    "n","o","p","q","r","s","t","u","v","w","x","y","z">>
Uppers ==
  <<"A","B","C","D","E","F","G","H","I","J","K","L","M",
    "N","O","P","Q","R","S","T","U","V","W","X","Y","Z">>

LowerOf(c) ==
  IF \E i \in 1..Len(Uppers) : Uppers[i] = c
    THEN Lowers[CHOOSE i \in 1..Len(Uppers) : Uppers[i] = c]
    ELSE c

UpperOf(c) ==
  IF \E i \in 1..Len(Lowers) : Lowers[i] = c
    THEN Uppers[CHOOSE i \in 1..Len(Lowers) : Lowers[i] = c]
    ELSE c

ToLower(s) == [i \in 1..Len(s) |-> LowerOf(s[i])]

\* the critic's possible outputs: the exact phrase, its near misses, a critique
LowerCasePhrase == ToLower(COMPLETION_PHRASE)
LeadingSpacePhrase == <<" ">> \o COMPLETION_PHRASE
TrailingSpacePhrase == COMPLETION_PHRASE \o <<" ">>
ContainingPhrase == COMPLETION_PHRASE \o <<" ","O","K">>
Critique == <<"f","i","x"," ","X">>
NearMisses ==
  {LowerCasePhrase, LeadingSpacePhrase, TrailingSpacePhrase, ContainingPhrase}
Feedbacks == {COMPLETION_PHRASE, Critique, EmptyText} \cup NearMisses

\* A reply of the model to one agent call: an exception, or a response that may
\* carry a final text and may call the tool exit_loop.
NoException == "none"
LlmError == "LlmCallError"
KeyError == "KeyError"

Raise ==
  [exception |-> LlmError, has_text |-> FALSE, text |-> EmptyText, exit_loop |-> FALSE]
TextReply(t) ==
  [exception |-> NoException, has_text |-> TRUE, text |-> t, exit_loop |-> FALSE]
ExitReply ==
  [exception |-> NoException, has_text |-> FALSE, text |-> EmptyText, exit_loop |-> TRUE]
ExitAndTextReply(t) ==
  [exception |-> NoException, has_text |-> TRUE, text |-> t, exit_loop |-> TRUE]
NoTextReply ==
  [exception |-> NoException, has_text |-> FALSE, text |-> EmptyText, exit_loop |-> FALSE]

\* a reply that is no usable answer: an error, or no text at all
IsEmpty(reply) ==
  reply.exception = NoException /\ ~reply.exit_loop
    /\ (~reply.has_text \/ reply.text = EmptyText)
FailureKind(reply) ==
  IF reply.exception # NoException THEN {"exception"}
  ELSE IF IsEmpty(reply) THEN {"empty"} ELSE {}

Contains(s, sub) ==
  \E i \in 1..(Len(s) + 1) :
    i + Len(sub) - 1 <= Len(s) /\ SubSeq(s, i, i + Len(sub) - 1) = sub

\* (mutant) the phrase is recognised anywhere in the critique
CritiqueIsCompletionBySubstring(criticism) == Contains(criticism, COMPLETION_PHRASE)

\* (mutant) the phrase is recognised whatever its case
CritiqueIsCompletionIgnoringCase(criticism) ==
  ToLower(criticism) = ToLower(COMPLETION_PHRASE)

\* PROMPT_REFINER: "IF the critique is *exactly* COMPLETION_PHRASE"
CritiqueIsCompletion(criticism) == criticism = COMPLETION_PHRASE

\* What each instruction asks the model for, given the values p its placeholders
\* were filled with. A call can also raise, or come back with an empty text.
PromptedReplies(agent, input, p) ==
  {Raise} \cup
  CASE agent = InputMapper -> {TextReply(input), TextReply(EmptyText)}
    [] agent = InitialWriterAgent -> {TextReply(d) : d \in Docs \cup {EmptyText}}
    [] agent = CriticAgent -> {TextReply(f) : f \in Feedbacks}
    [] agent = RefinerAgent ->
         IF CritiqueIsCompletion(p[STATE_CRITICISM])
           THEN {ExitReply}
           ELSE {TextReply(d) : d \in Docs \cup {EmptyText}}

\* What the model can reply whether or not it does what the instruction asks:
\* only an agent that holds the tool can call it.
AnyReplies(agent) ==
  {Raise} \cup
  {TextReply(t) : t \in
     CASE agent = InputMapper -> Topics \cup {EmptyText}
       [] agent = CriticAgent -> Feedbacks
       [] OTHER -> Docs \cup {EmptyText}} \cup
  IF "exit_loop" \in Tools(agent)
    THEN {ExitReply, NoTextReply} \cup {ExitAndTextReply(d) : d \in Docs}
    ELSE {}

----------------------------------------------------------------------------
\* The session state

\* (mutant) an empty text is not stored
SaveOutputNonEmpty(st, key, text) ==
  IF text = EmptyText THEN st
  ELSE [k \in DOMAIN st \cup {key} |-> IF k = key THEN text ELSE st[k]]

\* (mutant) a key that already holds a value keeps it
SaveOutputOnce(st, key, text) ==
  [k \in DOMAIN st \cup {key} |-> IF k \in DOMAIN st THEN st[k] ELSE text]

\* (mutant) the text is appended to the value the key holds
SaveOutputAppended(st, key, text) ==
  [k \in DOMAIN st \cup {key} |->
     IF k = key THEN (IF k \in DOMAIN st THEN st[k] \o text ELSE text) ELSE st[k]]

\* output_key: the agent's final text replaces the value under its key
SaveOutput(st, key, text) ==
  [k \in DOMAIN st \cup {key} |-> IF k = key THEN text ELSE st[k]]

\* the instruction's placeholders, filled from the session state
FillPlaceholders(agent, st) ==
  [k \in Placeholders(agent) \cap DOMAIN st |-> st[k]]

\* (mutant) the tool sets the flag only when the criticism is the completion phrase
exit_loop_checked(tool_context) ==
  IF STATE_CRITICISM \in DOMAIN tool_context.state
       /\ tool_context.state[STATE_CRITICISM] = COMPLETION_PHRASE
    THEN [tool_context.actions EXCEPT !.escalate = TRUE]
    ELSE tool_context.actions

\* (mutant) the tool returns without setting the flag
exit_loop_forgets(tool_context) == tool_context.actions

\* tool exit_loop: tool_context.actions.escalate = True, whatever the state holds
exit_loop(tool_context) == [tool_context.actions EXCEPT !.escalate = TRUE]

----------------------------------------------------------------------------
\* The orchestrators

\* SequentialAgent and LoopAgent run their sub-agents in list order, the loop
\* after the two single agents; "end" follows the last sub-agent.
FirstAgent == InputMapper
LoopFirst == CriticAgent
LoopLast == RefinerAgent

\* (mutant) the loop stops one iteration early
LoopContinuesOneShort(looped) == looped + 1 < max_iterations

\* (mutant) the bound is tested one iteration late
LoopContinuesOffByOne(looped) == looped <= max_iterations

\* LoopAgent: another iteration starts while fewer than max_iterations are done
LoopContinues(looped) == looped < max_iterations

\* (mutant) the loop does not count the iteration
CountIterationForgotten(looped) == looped

\* LoopAgent: an iteration that ran both sub-agents without the exit signal is counted
CountIteration(looped) == looped + 1

\* (mutant) the iteration that raised the exit signal is counted too
LoopedAfterAlwaysCounting(looped, exit_signal) == CountIteration(looped)

\* LoopAgent: the exit signal leaves the loop before the iteration is counted
LoopedAfter(looped, exit_signal) ==
  IF exit_signal THEN looped ELSE CountIteration(looped)

\* (mutant) a sub-agent is started without waiting for the others
CanStartWithoutWaiting(agent) == agent \notin active

\* A sub-agent is started when the one before it in the list has finished
CanStart(agent) == pc = agent /\ active = {}

\* (mutant) the loop's sub-agents are listed refiner first
SuccessorRefinerFirst(agent) ==
  CASE agent = InputMapper -> InitialWriterAgent
    [] agent = InitialWriterAgent -> RefinerAgent
    [] agent = CriticAgent -> RefinerAgent

\* (mutant) the writer is listed in the loop, after the critic
SuccessorWriterInLoop(agent) ==
  CASE agent = InputMapper -> InitialWriterAgent
    [] agent = InitialWriterAgent -> LoopFirst
    [] agent = CriticAgent -> InitialWriterAgent

\* the sub-agent that follows in sub_agents order, the loop's list after root's
Successor(agent) ==
  CASE agent = InputMapper -> InitialWriterAgent
    [] agent = InitialWriterAgent -> LoopFirst
    [] agent = CriticAgent -> LoopLast

\* how the run ended, read off the loop's exit
TerminationReason ==
  IF outcome # "completed" THEN "none"
  ELSE IF escalate THEN "sentinel" ELSE "bound"

Bump(n) == IF n < MaxCount THEN n + 1 ELSE n
NoResult == [status |-> "none"]
NoReply == [agent |-> "none", reply |-> NoTextReply]

\* Python's None, and a value that is not None
None == << >>
Some(v) == <<v>>

\* a dictionary with no key
EmptyDict == [k \in {} |-> None]

NoResponse == [ok |-> FALSE, json |-> EmptyDict]
NoForm ==
  [form |-> "none", full_name |-> "", email |-> "", password |-> EmptyText,
   confirm_password |-> EmptyText]
NoExchange == [handled |-> FALSE]

Init ==
  /\ user_input \in Topics
  /\ state = [k \in {} |-> EmptyText]
  /\ pc = FirstAgent
  /\ active = {}
  /\ prompt = [k \in {} |-> EmptyText]
  /\ times_looped = 0
  /\ escalate = FALSE
  /\ outcome = "running"
  /\ raised = NoException
  /\ calls = [a \in Agents |-> 0]
  /\ last_reply = NoReply
  /\ doc_at_iteration_start = EmptyText
  /\ failures = {}
  /\ sentinel_seen = FALSE
  /\ refined = 0
  /\ weather_city = EmptyText
  /\ weather_result = NoResult
  /\ authenticated = FALSE
  /\ user_token = None
  /\ user_data = None
  /\ screen = "none"
  /\ shown = ""
  /\ requests_sent = << >>
  /\ last_response = NoResponse
  /\ submitted = NoForm
  /\ api_last = NoExchange
  /\ api_previous = NoExchange

\* The orchestrator calls a sub-agent: its instruction is built from the state,
\* and a placeholder with no value in the state ends the run with a KeyError.
Start(agent) ==
  /\ outcome = "running"
  /\ CanStart(agent)
  /\ calls' = [calls EXCEPT ![agent] = Bump(@)]
  /\ prompt' = FillPlaceholders(agent, state)
  /\ IF Placeholders(agent) \subseteq DOMAIN state
       THEN /\ active' = active \cup {agent}
            /\ doc_at_iteration_start' =
                 IF agent = LoopFirst THEN state[STATE_CURRENT_DOC]
                                      ELSE doc_at_iteration_start
            /\ UNCHANGED <<outcome, raised>>
       ELSE /\ outcome' = "exception"
            /\ raised' = KeyError
            /\ UNCHANGED <<active, doc_at_iteration_start>>
  /\ UNCHANGED <<user_input, state, pc, times_looped, escalate, last_reply,
                 failures, sentinel_seen, refined>>
  /\ UNCHANGED <<weather_vars, dashboard_vars, backend_vars>>

\* (mutant) the exception is caught and the sub-agent is run again
FailRetried(agent, reply) ==
  /\ outcome = "running"
  /\ agent \in active
  /\ reply.exception # NoException
  /\ active' = active \ {agent}
  /\ last_reply' = [agent |-> agent, reply |-> reply]
  /\ failures' = failures \cup {<<agent, "exception">>}
  /\ UNCHANGED <<user_input, state, pc, prompt, times_looped, escalate, outcome, raised,
                 calls, doc_at_iteration_start, sentinel_seen, refined>>
  /\ UNCHANGED <<weather_vars, dashboard_vars, backend_vars>>

\* The model call raises: nothing catches it, the run ends with the exception.
Fail(agent, reply) ==
  /\ outcome = "running"
  /\ agent \in active
  /\ reply.exception # NoException
  /\ active' = active \ {agent}
  /\ outcome' = "exception"
  /\ raised' = reply.exception
  /\ last_reply' = [agent |-> agent, reply |-> reply]
  /\ failures' = failures \cup {<<agent, "exception">>}
  /\ UNCHANGED <<user_input, state, pc, prompt, times_looped, escalate, calls,
                 doc_at_iteration_start, sentinel_seen, refined>>
  /\ UNCHANGED <<weather_vars, dashboard_vars, backend_vars>>

\* One of the two single agents of the pipeline, or the critic, returns.
FinishStep(agent, reply) ==
  /\ outcome = "running"
  /\ agent \in active
  /\ agent # LoopLast
  /\ reply.exception = NoException
  /\ active' = active \ {agent}
  /\ state' = IF reply.has_text THEN SaveOutput(state, OutputKey(agent), reply.text)
                                ELSE state
  /\ pc' = Successor(agent)
  /\ last_reply' = [agent |-> agent, reply |-> reply]
  /\ failures' = failures \cup {<<agent, kind>> : kind \in FailureKind(reply)}
  /\ sentinel_seen' =
       (sentinel_seen \/ (agent = CriticAgent /\ reply.text = COMPLETION_PHRASE))
  /\ UNCHANGED <<user_input, prompt, times_looped, escalate, outcome, raised, calls,
                 doc_at_iteration_start, refined>>
  /\ UNCHANGED <<weather_vars, dashboard_vars, backend_vars>>

\* The refiner, last sub-agent of the loop, returns: the loop ends if the tool
\* was called, and otherwise counts the iteration and tests the bound.
FinishRefiner(reply) ==
  /\ outcome = "running"
  /\ LoopLast \in active
  /\ reply.exception = NoException
  /\ active' = active \ {LoopLast}
  /\ state' = IF reply.has_text THEN SaveOutput(state, OutputKey(LoopLast), reply.text)
                                ELSE state
  /\ escalate' =
       IF reply.exit_loop
         THEN exit_loop([agent_name |-> LoopLast, state |-> state,
                         actions |-> [escalate |-> escalate]]).escalate
         ELSE escalate
  /\ times_looped' = LoopedAfter(times_looped, escalate')
  /\ IF ~escalate' /\ LoopContinues(times_looped')
       THEN pc' = LoopFirst /\ outcome' = outcome
       ELSE pc' = "end" /\ outcome' = "completed"
  /\ last_reply' = [agent |-> LoopLast, reply |-> reply]
  /\ failures' = failures \cup {<<LoopLast, kind>> : kind \in FailureKind(reply)}
  /\ refined' = IF reply.has_text THEN Bump(refined) ELSE refined
  /\ UNCHANGED <<user_input, prompt, raised, calls, doc_at_iteration_start,
                 sentinel_seen>>
  /\ UNCHANGED <<weather_vars, dashboard_vars, backend_vars>>

\* The run when the model does what each instruction asks
Next ==
  \/ \E agent \in Agents : Start(agent)
  \/ \E agent \in Agents : Fail(agent, Raise)
  \/ \E agent \in active \ {LoopLast} :
       \E reply \in PromptedReplies(agent, user_input, prompt) : FinishStep(agent, reply)
  \/ \E agent \in active \cap {LoopLast} :
       \E reply \in PromptedReplies(agent, user_input, prompt) : FinishRefiner(reply)

Spec == Init /\ [][Next]_vars

\* Every model call returns, so a run that can take a step takes one.
FairSpec == Spec /\ WF_vars(Next)

\* The run whatever the model replies
NextAnyLLM ==
  \/ \E agent \in Agents : Start(agent)
  \/ \E agent \in Agents : Fail(agent, Raise)
  \/ \E agent \in active \ {LoopLast} :
       \E reply \in AnyReplies(agent) : FinishStep(agent, reply)
  \/ \E agent \in active \cap {LoopLast} :
       \E reply \in AnyReplies(agent) : FinishRefiner(reply)

SpecAnyLLM == Init /\ [][NextAnyLLM]_vars

----------------------------------------------------------------------------
\* The weather agent's tool (src/weather_agent_gemini/weather_agent_gemini.py)

NewYork == <<"n","e","w","y","o","r","k">>
London == <<"l","o","n","d","o","n">>
Tokyo == <<"t","o","k","y","o">>

\* weather_data: the mock reports, keyed by normalised city name
weather_data ==
  [c \in {NewYork, London, Tokyo} |->
     [status |-> "success",
      report |->
        CASE c = NewYork -> "The weather in New York is sunny with a temperature of 25°C."
          [] c = London -> "It's cloudy in London with a temperature of 15°C."
          [] c = Tokyo -> "Tokyo is experiencing light rain and a temperature of 18°C."]]

\* city.replace(" ", "")
RemoveSpaces(s) == SelectSeq(s, LAMBDA c : c # " ")

\* (mutant) the city is looked up without lower-casing it
get_weather_case_sensitive(city) ==
  LET city_normalized == RemoveSpaces(city)
  IN  IF city_normalized \in DOMAIN weather_data
        THEN weather_data[city_normalized]
        ELSE [status |-> "error",
              error_message |-> <<"The weather for ">> \o city \o <<" not available.">>]

\* get_weather(city)
get_weather(city) ==
  LET city_normalized == RemoveSpaces(ToLower(city))
  IN  IF city_normalized \in DOMAIN weather_data
        THEN weather_data[city_normalized]
        ELSE [status |-> "error",
              error_message |-> <<"The weather for ">> \o city \o <<" not available.">>]

\* The arguments tried: a name, some of its letters in upper case, spaces put
\* before, between or after its letters.
Paris == <<"p","a","r","i","s">>
York == <<"y","o","r","k">>
NewYorkCity == NewYork \o <<"c","i","t","y">>
NewTabYork == <<"n","e","w","\t","y","o","r","k">>
CityNames == {NewYork, London, Tokyo, Paris, York, NewYorkCity, NewTabYork, EmptyText}

CapsChoices(w) == {{}, 1..Len(w), {1}, {1, 4} \cap (1..Len(w))}
GapChoices(w) == {g \in SUBSET (0..Len(w)) : Cardinality(g) <= MaxSpaces}

Cased(w, caps) == [i \in 1..Len(w) |-> IF i \in caps THEN UpperOf(w[i]) ELSE w[i]]

RECURSIVE Spaced(_, _, _)
Spaced(w, gaps, i) ==
  (IF i \in gaps THEN <<" ">> ELSE << >>) \o
  (IF i < Len(w) THEN <<w[i + 1]>> \o Spaced(w, gaps, i + 1) ELSE << >>)

\* The model calls the tool with some city.  The tool reads nothing but its
\* argument, so calls do not depend on one another: a behaviour holds one.
GetWeather(city) ==
  /\ weather_result = NoResult
  /\ weather_city' = city
  /\ weather_result' = get_weather(city)
  /\ UNCHANGED <<user_input, state, pc, active, prompt, times_looped, escalate, outcome,
                 raised, calls, last_reply, doc_at_iteration_start, failures,
                 sentinel_seen, refined>>
  /\ UNCHANGED <<dashboard_vars, backend_vars>>

NextWeather ==
  \E name \in CityNames : \E caps \in CapsChoices(name) : \E gaps \in GapChoices(name) :
    GetWeather(Spaced(Cased(name, caps), gaps, 0))

SpecWeather == Init /\ [][NextWeather]_vars

----------------------------------------------------------------------------
\* The dashboard (src/GPT-JobHunter/frontend/app.py).  Every interaction of
\* the user runs the script once: main() renders the authentication screen or
\* the sidebar and the selected page, and st.rerun() runs it again at once.

PasswordMinLength == 8

\* the values typed into the forms; a password is a sequence of characters
Names == {"", "John Doe"}
Emails == {"", "user@example.com"}
Passwords ==
  {[i \in 1..n |-> c] : n \in {0, PasswordMinLength - 1, PasswordMinLength},
                        c \in {"a", "b"}}

\* What the server can answer to /auth/login and /auth/register: the Token of
\* the backend, with or without its user, an answer without access_token, or
\* nothing; ok is FALSE when the request or raise_for_status() raises.
Tokens == {"mock_jwt_token_12345"}
UserOf(email, full_name) ==
  [id |-> 1, email |-> email, full_name |-> full_name, is_active |-> TRUE]
TokenBody(token, user) ==
  [access_token |-> token, token_type |-> "bearer", expires_in |-> 1800, user |-> user]
TokenBodyNoUser(token) == [access_token |-> token, token_type |-> "bearer"]
ErrorBody == [detail |-> "Invalid credentials"]
Bodies(email, full_name) ==
  {EmptyDict, ErrorBody} \cup
  {TokenBody(token, UserOf(email, full_name)) : token \in Tokens} \cup
  {TokenBodyNoUser(token) : token \in Tokens}
Responses(email, full_name) ==
  {[ok |-> ok, json |-> body] : ok \in BOOLEAN, body \in Bodies(email, full_name)}

\* (mutant) the body is returned whatever the status of the response
make_request_unchecked(response) == response.json

\* JobHunterAPI._make_request: the body of the response, {} on any failure
make_request(response) == IF response.ok THEN response.json ELSE EmptyDict

\* a request as sent: authorization is None or the Bearer value
AuthRequest(endpoint) == [method |-> "POST", endpoint |-> endpoint, authorization |-> None]
BearerRequest(method, endpoint, token) ==
  [method |-> method, endpoint |-> endpoint, authorization |-> Some(token)]

\* (mutant) main() renders the pages whatever the flag
ShowsAuthenticationNever(session_authenticated) == FALSE

\* main(): if not st.session_state.authenticated: authenticate_user()
ShowsAuthentication(session_authenticated) == ~session_authenticated

\* result and "access_token" in result
HasToken(result) == result # EmptyDict /\ "access_token" \in DOMAIN result

\* result.get("user", {})
UserIn(result) == IF "user" \in DOMAIN result THEN result["user"] ELSE EmptyDict

\* (mutant) the length of the password is tested before the confirmation
RegisterErrorLengthFirst(password, confirm_password) ==
  IF Len(password) < PasswordMinLength
    THEN "Password must be at least 8 characters long."
  ELSE IF password # confirm_password THEN "Passwords do not match."
  ELSE ""

\* the tests of the register form, in the order of the code
RegisterError(password, confirm_password) ==
  IF password # confirm_password THEN "Passwords do not match."
  ELSE IF Len(password) < PasswordMinLength
    THEN "Password must be at least 8 characters long."
  ELSE ""

\* the pages of sidebar_navigation, and the requests each page function sends
\* when it renders and when its first or second form is submitted
Pages ==
  {"dashboard", "profile", "job_search", "applications", "resume_tools",
   "cover_letters", "interview_prep", "analytics"}

When(cond, request) == IF cond THEN <<request>> ELSE << >>

PageRequests(page, pressed, token) ==
  CASE page = "profile" ->
         <<BearerRequest("GET", "/profile", token)>> \o
         When(pressed = 1, BearerRequest("PUT", "/profile", token))
    [] page = "job_search" ->
         When(pressed = 1, BearerRequest("POST", "/jobs/search", token)) \o
         <<BearerRequest("GET", "/jobs/recommendations", token)>>
    [] page = "resume_tools" ->
         When(pressed = 1, BearerRequest("POST", "/resume/analyze", token)) \o
         When(pressed = 2, BearerRequest("POST", "/resume/optimize", token))
    [] page = "cover_letters" ->
         When(pressed = 1, BearerRequest("POST", "/cover-letter/generate", token))
    [] page = "interview_prep" ->
         When(pressed = 1, BearerRequest("POST", "/interview/prepare", token))
    [] page = "analytics" ->
         When(pressed = 1, BearerRequest("GET", "/analytics/job-market", token)) \o
         When(pressed = 2, BearerRequest("POST", "/analytics/career-advice", token))
    [] OTHER -> << >>

\* The three fields are set from the result, and st.rerun() renders the first
\* page of the sidebar.
SignIn(result, message) ==
  /\ authenticated' = TRUE
  /\ user_token' = Some(result["access_token"])
  /\ user_data' = Some(UserIn(result))
  /\ shown' = message
  /\ screen' = "dashboard"

\* authenticate_user(), the Login button
Login(email, password, response) ==
  /\ ShowsAuthentication(authenticated)
  /\ submitted' = [NoForm EXCEPT !.form = "login", !.email = email, !.password = password]
  /\ IF email # "" /\ password # EmptyText
       THEN LET result == make_request(response)
            IN  /\ requests_sent' = <<AuthRequest("/auth/login")>>
                /\ last_response' = response
                /\ IF HasToken(result)
                     THEN SignIn(result, "Login successful!")
                     ELSE /\ shown' = "Invalid credentials. Please try again."
                          /\ screen' = "authenticate_user"
                          /\ UNCHANGED session_vars
       ELSE /\ requests_sent' = << >>
            /\ shown' = ""
            /\ screen' = "authenticate_user"
            /\ UNCHANGED <<session_vars, last_response>>
  /\ UNCHANGED <<pipeline_vars, weather_vars, backend_vars>>

\* authenticate_user(), the Register button
Register(full_name, email, password, confirm_password, response) ==
  /\ ShowsAuthentication(authenticated)
  /\ submitted' = [form |-> "register", full_name |-> full_name, email |-> email,
                   password |-> password, confirm_password |-> confirm_password]
  /\ IF full_name # "" /\ email # "" /\ password # EmptyText /\ confirm_password # EmptyText
       THEN IF RegisterError(password, confirm_password) # ""
              THEN /\ shown' = RegisterError(password, confirm_password)
                   /\ requests_sent' = << >>
                   /\ screen' = "authenticate_user"
                   /\ UNCHANGED <<session_vars, last_response>>
              ELSE LET result == make_request(response)
                   IN  /\ requests_sent' = <<AuthRequest("/auth/register")>>
                       /\ last_response' = response
                       /\ IF HasToken(result)
                            THEN SignIn(result, "Registration successful!")
                            ELSE /\ shown' = "Registration failed. Please try again."
                                 /\ screen' = "authenticate_user"
                                 /\ UNCHANGED session_vars
       ELSE /\ requests_sent' = << >>
            /\ shown' = ""
            /\ screen' = "authenticate_user"
            /\ UNCHANGED <<session_vars, last_response>>
  /\ UNCHANGED <<pipeline_vars, weather_vars, backend_vars>>

\* (mutant) the Logout button clears the flag only
LogoutKeepsToken ==
  /\ ~ShowsAuthentication(authenticated)
  /\ authenticated' = FALSE
  /\ screen' = "authenticate_user"
  /\ shown' = ""
  /\ requests_sent' = << >>
  /\ submitted' = NoForm
  /\ UNCHANGED <<user_token, user_data, last_response>>
  /\ UNCHANGED <<pipeline_vars, weather_vars, backend_vars>>

\* sidebar_navigation(), the Logout button: the fields are reset and st.rerun()
\* renders the authentication screen before any page function is called.
Logout ==
  /\ ~ShowsAuthentication(authenticated)
  /\ authenticated' = FALSE
  /\ user_token' = None
  /\ user_data' = None
  /\ screen' = "authenticate_user"
  /\ shown' = ""
  /\ requests_sent' = << >>
  /\ submitted' = NoForm
  /\ UNCHANGED last_response
  /\ UNCHANGED <<pipeline_vars, weather_vars, backend_vars>>

\* main() with the flag set: the page selected in the sidebar is rendered, and
\* its requests carry st.session_state.user_token.
ViewPage(page, pressed) ==
  /\ ~ShowsAuthentication(authenticated)
  /\ screen' = page
  /\ shown' = ""
  /\ requests_sent' = PageRequests(page, pressed, user_token)
  /\ submitted' = NoForm
  /\ UNCHANGED <<session_vars, last_response>>
  /\ UNCHANGED <<pipeline_vars, weather_vars, backend_vars>>

NextDashboard ==
  \/ \E email \in Emails : \E password \in Passwords :
       \E response \in Responses(email, "John Doe") : Login(email, password, response)
  \/ \E full_name \in Names : \E email \in Emails :
       \E password \in Passwords : \E confirm_password \in Passwords :
         \E response \in Responses(email, full_name) :
           Register(full_name, email, password, confirm_password, response)
  \/ Logout
  \/ \E page \in Pages : \E pressed \in 0..2 : ViewPage(page, pressed)

SpecDashboard == Init /\ [][NextDashboard]_vars

----------------------------------------------------------------------------
\* The backend (src/GPT-JobHunter/backend/app/main.py): its protected
\* endpoints GET /profile and POST /jobs/search.  The backend keeps no state;
\* the last two requests and their responses are recorded.

MaxLimit == 100

\* (mutant) the user is looked up by the token
get_current_user_by_token(credentials) ==
  [id |-> IF credentials = "mock_jwt_token_12345" THEN 1 ELSE 2,
   email |-> "user@example.com", full_name |-> "John Doe", is_active |-> TRUE]

\* get_current_user: the same user whatever the credentials
get_current_user(credentials) ==
  [id |-> 1, email |-> "user@example.com", full_name |-> "John Doe", is_active |-> TRUE]

get_profile(current_user) ==
  [id |-> 1,
   user_id |-> current_user.id,
   headline |-> "Senior Software Engineer",
   summary |-> "Experienced developer with 5+ years in full-stack development",
   location |-> "San Francisco, CA",
   skills |-> <<"Python", "JavaScript", "React", "FastAPI">>,
   experience_level |-> "senior"]

sample_jobs ==
  << [id |-> 1, title |-> "Senior Python Developer", company |-> "TechCorp Inc.",
      location |-> "San Francisco, CA", salary_min |-> 120000, salary_max |-> 180000,
      job_type |-> "full_time", experience_level |-> "senior", remote_allowed |-> TRUE,
      skills_required |-> <<"Python", "FastAPI", "PostgreSQL">>, match_score |-> "95.5"],
     [id |-> 2, title |-> "Full Stack Engineer", company |-> "StartupXYZ",
      location |-> "Remote", salary_min |-> 100000, salary_max |-> 150000,
      job_type |-> "full_time", experience_level |-> "mid", remote_allowed |-> TRUE,
      skills_required |-> <<"JavaScript", "React", "Node.js">>, match_score |-> "87.2"] >>

\* sequence[:n] for n >= 0
Slice(sequence, n) == SubSeq(sequence, 1, IF n < Len(sequence) THEN n ELSE Len(sequence))

\* (mutant) the page asked for is cut out of the jobs, and has_more tells
\* whether jobs are left after it
search_jobs_paged(search_request, current_user) ==
  [jobs |-> SubSeq(Slice(sample_jobs, search_request.page * search_request.limit),
                   (search_request.page - 1) * search_request.limit + 1,
                   Len(Slice(sample_jobs, search_request.page * search_request.limit))),
   total |-> Len(sample_jobs),
   page |-> search_request.page,
   limit |-> search_request.limit,
   has_more |-> search_request.page * search_request.limit < Len(sample_jobs)]

search_jobs(search_request, current_user) ==
  [jobs |-> Slice(sample_jobs, search_request.limit),
   total |-> Len(sample_jobs),
   page |-> search_request.page,
   limit |-> search_request.limit,
   has_more |-> FALSE]

\* JobSearchRequest: query has min_length 1, page ge 1, limit ge 1 and le 100
JobSearchRequestValid(body) ==
  /\ body.query # ""
  /\ body.page >= 1
  /\ body.limit >= 1
  /\ body.limit <= MaxLimit

\* The requests tried: without credentials or with one of two tokens, and a
\* search body inside or outside the limits of its schema.
Credentials == {"mock_jwt_token_12345", "forged"}
Queries == {"", "python developer"}
PagesAsked == {0, 1, 2}
Limits == {0, 1, 2, 3, MaxLimit, MaxLimit + 1}
NoBody == [query |-> "", page |-> 0, limit |-> 0]
ApiRequests ==
  {[endpoint |-> "/profile", credentials |-> c, body |-> NoBody] :
     c \in {None} \cup {Some(t) : t \in Credentials}} \cup
  {[endpoint |-> "/jobs/search", credentials |-> c,
    body |-> [query |-> q, page |-> pg, limit |-> l]] :
     c \in {None} \cup {Some(t) : t \in Credentials},
     q \in Queries, pg \in PagesAsked, l \in Limits}

\* One request through the application: HTTPBearer refuses a request without
\* credentials, the body is validated against its schema, and the endpoint
\* function is called with the user get_current_user returns.
Respond(request) ==
  IF request.credentials = None
    THEN [status_code |-> 403, kind |-> "error"]
  ELSE LET current_user == get_current_user(request.credentials[1])
       IN  IF request.endpoint = "/profile"
             THEN [status_code |-> 200, kind |-> "Profile",
                   body |-> get_profile(current_user)]
           ELSE IF JobSearchRequestValid(request.body)
             THEN [status_code |-> 200, kind |-> "JobSearchResponse",
                   body |-> search_jobs(request.body, current_user)]
           ELSE [status_code |-> 422, kind |-> "error"]

Handle(request) ==
  /\ api_last' = [handled |-> TRUE, request |-> request, response |-> Respond(request)]
  /\ api_previous' = api_last
  /\ UNCHANGED <<pipeline_vars, weather_vars, dashboard_vars>>

NextBackend == \E request \in ApiRequests : Handle(request)

SpecBackend == Init /\ [][NextBackend]_vars

----------------------------------------------------------------------------
\* Properties

RefinerReturned ==
  last_reply.agent = RefinerAgent /\ last_reply.reply.exception = NoException

CriticReturned ==
  last_reply.agent = CriticAgent /\ last_reply.reply.exception = NoException

Criticism == IF STATE_CRITICISM \in DOMAIN state THEN state[STATE_CRITICISM] ELSE EmptyText
CurrentDoc == IF STATE_CURRENT_DOC \in DOMAIN state THEN state[STATE_CURRENT_DOC] ELSE EmptyText

\* C1: whatever the model replies, one run invokes the critic at most
\* max_iterations times and the refiner at most max_iterations times, and the
\* loop completes at most max_iterations iterations.
C1_AtMostMaxIterations ==
  /\ calls[CriticAgent] <= max_iterations
  /\ calls[RefinerAgent] <= max_iterations
  /\ times_looped <= max_iterations

C1_Witness ==
  /\ outcome = "completed"
  /\ calls[CriticAgent] = max_iterations
  /\ calls[RefinerAgent] = max_iterations

ExitWithoutSentinel ==
  RefinerReturned /\ last_reply.reply.exit_loop /\ Criticism # COMPLETION_PHRASE

\* C5 (as claimed): an exit_loop call that follows a criticism other than the
\* completion phrase is rejected: the run ends in an error, not as completed.
C5_ExitWithoutSentinelRejected ==
  ExitWithoutSentinel => (outcome = "exception" /\ raised # NoException)

\* C5 (amended): exit_loop sets the exit signal whatever the criticism was, so
\* an exit_loop call that follows a criticism other than the completion phrase
\* ends the loop as a normal completion, in that iteration, with no error and
\* with current_document still in the session state.
C5_ExitWithoutSentinelHonored ==
  ExitWithoutSentinel =>
    /\ escalate
    /\ outcome = "completed"
    /\ raised = NoException
    /\ TerminationReason = "sentinel"
    /\ calls[RefinerAgent] = times_looped + 1
    /\ STATE_CURRENT_DOC \in DOMAIN state

C5_Witness ==
  /\ ExitWithoutSentinel
  /\ Criticism = Critique
  /\ outcome = "completed"
  /\ calls[RefinerAgent] = 2
  /\ CurrentDoc \in Docs

LoopAgents == {CriticAgent, RefinerAgent}

\* the critic or the refiner finished last, and its call raised
LoopCallRaised ==
  last_reply.agent \in LoopAgents /\ last_reply.reply.exception # NoException

\* the critic or the refiner finished last, and its call came back with an empty text
LoopCallEmpty ==
  last_reply.agent \in LoopAgents /\ IsEmpty(last_reply.reply)

\* C6 (as claimed): after a critic or refiner call that raised or came back
\* empty, the run has ended in an error.
C6_LoopFailureIsFatal ==
  (LoopCallRaised \/ LoopCallEmpty) => (outcome = "exception" /\ raised # NoException)

\* C6 (amended): a critic or refiner call that raises ends the run with that
\* exception as raised (nothing wraps it or names the step), no agent left
\* running, and the session state keeps the current_document last written; a
\* call that comes back empty is no error: an empty text is stored under the
\* agent's output key and the run goes on or completes.
C6_LoopFailureAsCoded ==
  /\ LoopCallRaised =>
       /\ outcome = "exception"
       /\ raised = last_reply.reply.exception
       /\ active = {}
       /\ pc = last_reply.agent
       /\ STATE_CURRENT_DOC \in DOMAIN state
       /\ last_reply.agent = CriticAgent => CurrentDoc = doc_at_iteration_start
  /\ LoopCallEmpty =>
       /\ outcome \in {"running", "completed"}
       /\ raised = NoException
       /\ last_reply.reply.has_text => state[OutputKey(last_reply.agent)] = EmptyText

C6_Witness ==
  /\ LoopCallRaised
  /\ last_reply.agent = RefinerAgent
  /\ <<CriticAgent, "empty">> \in failures
  /\ outcome = "exception"
  /\ CurrentDoc \in Docs
  /\ times_looped = 1

ProducerRaised == <<InitialWriterAgent, "exception">> \in failures
ProducerEmpty == <<InitialWriterAgent, "empty">> \in failures

\* C7 (as claimed): once the producer has raised or returned an empty artifact,
\* the run has ended in an error and neither the critic nor the refiner is
\* ever called.
C7_ProducerFailureStopsRun ==
  (ProducerRaised \/ ProducerEmpty) =>
    /\ outcome = "exception"
    /\ calls[CriticAgent] = 0
    /\ calls[RefinerAgent] = 0

\* C7 (amended): a producer call that raises ends the run with that exception
\* before any critic or refiner call, the loop never entered; a producer that
\* returns an empty artifact raises nothing: the empty text is stored as
\* current_document and the loop is entered, the critic being given the empty
\* document.
C7_ProducerFailureAsCoded ==
  /\ ProducerRaised =>
       /\ outcome = "exception"
       /\ raised = LlmError
       /\ pc = InitialWriterAgent
       /\ calls[CriticAgent] = 0
       /\ calls[RefinerAgent] = 0
       /\ times_looped = 0
  /\ (ProducerEmpty /\ last_reply.agent = InitialWriterAgent) =>
       /\ outcome = "running"
       /\ raised = NoException
       /\ pc = LoopFirst
       /\ STATE_CURRENT_DOC \in DOMAIN state
       /\ CurrentDoc = EmptyText
  /\ (ProducerEmpty /\ calls[CriticAgent] = 1 /\ active = {CriticAgent}) =>
       prompt[STATE_CURRENT_DOC] = EmptyText

C7_Witness ==
  /\ ProducerEmpty
  /\ failures = {<<InitialWriterAgent, "empty">>}
  /\ active = {CriticAgent}
  /\ calls[CriticAgent] = 1
  /\ prompt[STATE_CURRENT_DOC] = EmptyText
  /\ outcome = "running"

\* C8: every run whose model calls all return reaches an end, completed or
\* failed; a run that ends with no failed call is completed, by the exit signal
\* or by the bound, and holds a non-empty current_document.
C8_RunTerminates ==
  /\ <>(outcome # "running")
  /\ []((outcome # "running" /\ failures = {}) =>
          /\ outcome = "completed"
          /\ active = {}
          /\ TerminationReason \in {"sentinel", "bound"}
          /\ CurrentDoc \in Docs)

C8_Witness ==
  /\ outcome = "completed"
  /\ failures = {}
  /\ TerminationReason = "bound"
  /\ CurrentDoc \in Docs

\* the step that runs immediately before a step of the given agent
Predecessors(agent) ==
  CASE agent = InputMapper -> {"none"}
    [] agent = InitialWriterAgent -> {InputMapper}
    [] agent = CriticAgent -> {InitialWriterAgent, RefinerAgent}
    [] agent = RefinerAgent -> {CriticAgent}

\* C9: at most one step runs at a time, and it is the one the pipeline has
\* reached; it was started after the step before it in the order produce,
\* critique, refine, critique, ... had returned, and its instruction was filled
\* with the state as that step left it, holding the text that step returned.
C9_StrictlySequential ==
  /\ Cardinality(active) <= 1
  /\ \A agent \in active :
       /\ pc = agent
       /\ outcome = "running"
       /\ last_reply.agent \in Predecessors(agent)
       /\ last_reply.reply.exception = NoException
       /\ (agent = CriticAgent) =>
            ((last_reply.agent = InitialWriterAgent) <=> (calls[CriticAgent] = 1))
       /\ prompt = FillPlaceholders(agent, state)
       /\ DOMAIN prompt = Placeholders(agent)
       /\ (agent # InputMapper /\ last_reply.reply.has_text) =>
            prompt[OutputKey(last_reply.agent)] = last_reply.reply.text

C9_Witness ==
  /\ active = {CriticAgent}
  /\ calls[CriticAgent] = 3
  /\ last_reply.agent = RefinerAgent
  /\ last_reply.reply.text \in Docs
  /\ prompt[STATE_CURRENT_DOC] = last_reply.reply.text
  /\ prompt[STATE_CURRENT_DOC] = doc_at_iteration_start

SomeCallRaised == \E agent \in Agents : <<agent, "exception">> \in failures

\* C14 (as claimed): once a call has failed, by raising or by coming back
\* empty, no agent is invoked any more.
C14_NoCallAfterFailureAsClaimed ==
  [][failures # {} => calls' = calls]_vars

\* C14 (amended): once a call has raised, no agent is invoked any more, the
\* call that raised included, and the session state stays as it is: a critic
\* that raises on its first call is followed by no refiner call.  A call that
\* comes back empty does not stop the run: the next sub-agent in order is
\* invoked.
C14_NoCallAfterException ==
  /\ [][SomeCallRaised => (calls' = calls /\ state' = state /\ active' = active)]_vars
  /\ [](SomeCallRaised => (outcome = "exception" /\ active = {}))
  /\ []((IsEmpty(last_reply.reply) /\ last_reply.agent \in Agents \ {LoopLast}
           /\ calls[Successor(last_reply.agent)] = 0) =>
          (outcome = "running" /\ pc = Successor(last_reply.agent)))

C14_Witness ==
  /\ outcome = "exception"
  /\ failures = {<<CriticAgent, "exception">>}
  /\ calls[CriticAgent] = 1
  /\ calls[RefinerAgent] = 0
  /\ CurrentDoc \in Docs

ProducerReturnedDoc ==
  /\ STATE_CURRENT_DOC \in DOMAIN state
  /\ <<InitialWriterAgent, "empty">> \notin failures

\* C17 (as claimed): once the producer has returned its document, the stored
\* document is never empty.
C17_DocNeverEmptyAsClaimed ==
  ProducerReturnedDoc => CurrentDoc # EmptyText

\* C17 (amended): once the producer has returned a non-empty document, a critic
\* step, a refiner step that returns no text (one that only calls exit_loop
\* included) and the end of the run leave the stored document as it was, so not
\* empty; a refiner step that returns an empty text stores it, and the document
\* is then empty.
C17_DocEmptiedOnlyByEmptyRefine ==
  /\ (ProducerReturnedDoc /\ <<RefinerAgent, "empty">> \notin failures) =>
       CurrentDoc \in Docs
  /\ CriticReturned => CurrentDoc = doc_at_iteration_start
  /\ (RefinerReturned /\ ~last_reply.reply.has_text) => CurrentDoc = doc_at_iteration_start
  /\ (RefinerReturned /\ last_reply.reply.has_text) => CurrentDoc = last_reply.reply.text

C17_Witness ==
  /\ ProducerReturnedDoc
  /\ RefinerReturned
  /\ last_reply.reply = TextReply(EmptyText)
  /\ doc_at_iteration_start \in Docs
  /\ CurrentDoc = EmptyText

\* the agents whose instruction holds the topic's placeholder
TopicReaders == {agent \in Agents : STATE_INITIAL_TOPIC \in Placeholders(agent)}

\* C18 (as claimed): the producer, the critic and the refiner each read the
\* topic as it stands in the session state.
C18_TopicReadByEveryStep ==
  \A agent \in active \ {InputMapper} :
    /\ STATE_INITIAL_TOPIC \in DOMAIN prompt
    /\ prompt[STATE_INITIAL_TOPIC] = state[STATE_INITIAL_TOPIC]

\* C18 (amended): the topic is written once, by the input mapper at the start
\* of the pipeline, and no later step changes it; the producer and the critic
\* read it, the refiner neither reads nor writes it.
C18_TopicWrittenOnce ==
  /\ [][(STATE_INITIAL_TOPIC \notin DOMAIN state /\ STATE_INITIAL_TOPIC \in DOMAIN state') =>
          (InputMapper \in active /\ calls[InputMapper] = 1)]_vars
  /\ [][(STATE_INITIAL_TOPIC \in DOMAIN state) =>
          (STATE_INITIAL_TOPIC \in DOMAIN state'
             /\ state'[STATE_INITIAL_TOPIC] = state[STATE_INITIAL_TOPIC])]_vars
  /\ [](calls[InputMapper] <= 1)
  /\ [](TopicReaders = {InitialWriterAgent, CriticAgent})
  /\ [](\A agent \in active :
          /\ (STATE_INITIAL_TOPIC \in DOMAIN prompt) <=> (agent \in TopicReaders)
          /\ agent \in TopicReaders =>
               prompt[STATE_INITIAL_TOPIC] = state[STATE_INITIAL_TOPIC])

C18_Witness ==
  /\ outcome = "completed"
  /\ calls[CriticAgent] = max_iterations
  /\ refined = max_iterations
  /\ state[STATE_INITIAL_TOPIC] \in Topics
  /\ state[STATE_INITIAL_TOPIC] # user_input

\* the city, read letter by letter without its spaces and whatever its case,
\* is the given lower-case name
RECURSIVE Spells(_, _)
Spells(city, name) ==
  IF city = << >> THEN name = << >>
  ELSE IF Head(city) = " " THEN Spells(Tail(city), name)
  ELSE /\ name # << >>
       /\ (Head(city) = Head(name) \/ Head(city) = UpperOf(Head(name)))
       /\ Spells(Tail(city), Tail(name))

NewYorkTitle == <<"N","e","w"," ","Y","o","r","k">>
NewYorkLower == <<"n","e","w"," ","y","o","r","k">>
NewYorkUpper == <<"N","E","W","Y","O","R","K">>
ParisTitle == <<"P","a","r","i","s">>
NewYorkReport == "The weather in New York is sunny with a temperature of 25°C."

\* C19: get_weather returns status "success" and a report, and nothing else,
\* exactly when the city spells newyork, london or tokyo once its spaces are
\* dropped and its case ignored, the report being that city's; for any other
\* city it returns status "error" and an error_message naming the city, and no
\* report.  "New York", "new york" and "NEWYORK" get the same report, "Paris"
\* an error.
C19_GetWeather ==
  weather_result # NoResult =>
    /\ (weather_result.status = "success") <=>
         (\E name \in {NewYork, London, Tokyo} : Spells(weather_city, name))
    /\ \A name \in {NewYork, London, Tokyo} :
         Spells(weather_city, name) =>
           weather_result = [status |-> "success", report |-> weather_data[name].report]
    /\ weather_result.status # "success" =>
         /\ weather_result.status = "error"
         /\ DOMAIN weather_result = {"status", "error_message"}
         /\ weather_result.error_message =
              <<"The weather for ">> \o weather_city \o <<" not available.">>
    /\ weather_city \in {NewYorkTitle, NewYorkLower, NewYorkUpper} =>
         weather_result = [status |-> "success", report |-> NewYorkReport]
    /\ weather_city = ParisTitle => weather_result.status = "error"

C19_Witness ==
  /\ weather_city = NewYorkTitle
  /\ weather_result.status = "success"
  /\ weather_result.report = NewYorkReport

\* C20: the initial writer is invoked at most once in a run; it has been
\* invoked, exactly once, and has returned its draft, before the critic is
\* first invoked; and once the loop has been entered no step invokes it
\* again, however many iterations follow.  A run that completes invoked it
\* exactly once.
C20_ProducerOnce ==
  [][/\ calls'[InitialWriterAgent] <= 1
     /\ (calls'[CriticAgent] >= 1) =>
          (/\ calls[InitialWriterAgent] = 1
           /\ calls'[InitialWriterAgent] = 1
           /\ InitialWriterAgent \notin active'
           /\ STATE_CURRENT_DOC \in DOMAIN state)
     /\ (outcome' = "completed") => (calls'[InitialWriterAgent] = 1)]_vars

C20_Witness ==
  /\ outcome = "completed"
  /\ calls[InitialWriterAgent] = 1
  /\ calls[CriticAgent] = max_iterations
  /\ calls[RefinerAgent] = max_iterations
  /\ times_looped = max_iterations

\* what a session state holds under a key
Held(st, key) == IF key \in DOMAIN st THEN <<"set", st[key]>> ELSE <<"unset">>

Returns(agent) == agent \in active /\ agent \notin active' /\ outcome' # "exception"
Starts(agent) == agent \notin active /\ agent \in active'

\* C21: current_document changes only when the initial writer or the refiner
\* returns with a text, and is then that text and nothing more; the critic's
\* return leaves it as it was; and the document the refiner of an iteration is
\* prompted with is the one the iteration's critic was started on, which is
\* the text the step before that critic stored (the writer's before the first
\* iteration, the previous refiner's after it), or the document of the
\* iteration before when that refiner stored none.
C21_DocWrittenByWriterAndRefiner ==
  [][/\ (Held(state', STATE_CURRENT_DOC) # Held(state, STATE_CURRENT_DOC)) =>
          /\ Returns(InitialWriterAgent) \/ Returns(RefinerAgent)
          /\ last_reply'.reply.has_text
          /\ Held(state', STATE_CURRENT_DOC) = <<"set", last_reply'.reply.text>>
     /\ (\E agent \in {InitialWriterAgent, RefinerAgent} :
           Returns(agent) /\ last_reply'.reply.has_text) =>
          Held(state', STATE_CURRENT_DOC) = <<"set", last_reply'.reply.text>>
     /\ Returns(CriticAgent) =>
          Held(state', STATE_CURRENT_DOC) = Held(state, STATE_CURRENT_DOC)
     /\ Starts(CriticAgent) =>
          /\ last_reply.agent =
               (IF calls[CriticAgent] = 0 THEN InitialWriterAgent ELSE RefinerAgent)
          /\ state[STATE_CURRENT_DOC] =
               (IF last_reply.reply.has_text THEN last_reply.reply.text
                                             ELSE doc_at_iteration_start)
          /\ doc_at_iteration_start' = state[STATE_CURRENT_DOC]
     /\ Starts(RefinerAgent) =>
          /\ prompt'[STATE_CURRENT_DOC] = state[STATE_CURRENT_DOC]
          /\ prompt'[STATE_CURRENT_DOC] = doc_at_iteration_start]_vars

C21_Witness ==
  /\ RefinerAgent \in active
  /\ calls[RefinerAgent] = 2
  /\ refined = 1
  /\ prompt[STATE_CURRENT_DOC] \in Docs
  /\ prompt[STATE_CURRENT_DOC] = doc_at_iteration_start

\* C22 (as claimed): when an iteration starts and when the run has completed,
\* the session state holds no criticism of an earlier iteration.
C22_FeedbackNotRetainedAsClaimed ==
  ((pc = LoopFirst /\ active = {}) \/ outcome = "completed") =>
    Held(state, STATE_CRITICISM) \in {<<"unset">>, <<"set", EmptyText>>}

\* C22 (amended): every text the critic returns replaces the criticism in the
\* session state; the refiner is the only agent whose instruction is filled
\* with it, and the one it is filled with is the text the critic of the same
\* iteration returned; nothing else writes or removes the criticism, so the
\* last one stays in the state when the refiner returns, while the next
\* iteration starts, and after the run has completed.
C22_FeedbackOverwrittenAndKept ==
  [][/\ (Returns(CriticAgent) /\ last_reply'.reply.has_text) =>
          Held(state', STATE_CRITICISM) = <<"set", last_reply'.reply.text>>
     /\ (Held(state', STATE_CRITICISM) # Held(state, STATE_CRITICISM)) =>
          Returns(CriticAgent)
     /\ \A agent \in Agents :
          (Starts(agent) /\ STATE_CRITICISM \in DOMAIN prompt') =>
             /\ agent = RefinerAgent
             /\ last_reply.agent = CriticAgent
             /\ prompt'[STATE_CRITICISM] = last_reply.reply.text
     /\ Starts(RefinerAgent) => STATE_CRITICISM \in DOMAIN prompt'
     /\ (\/ outcome' = "completed"
         \/ (outcome' = "running" /\ pc' = LoopFirst /\ active' = {}
               /\ calls'[CriticAgent] > 0)) =>
          Held(state', STATE_CRITICISM) # <<"unset">>]_vars

C22_Witness ==
  /\ pc = LoopFirst
  /\ active = {}
  /\ calls[CriticAgent] = 1
  /\ last_reply.agent = RefinerAgent
  /\ Held(state, STATE_CRITICISM) = <<"set", Critique>>

\* C23 (as claimed): the loop's counter starts at 0, never decreases, stays
\* within 0..max_iterations, and goes up by one with every iteration that
\* ends, the one in which the refiner calls exit_loop included: in a completed
\* run it is the number of iterations run.
C23_CounterAsClaimed ==
  /\ times_looped \in 0..max_iterations
  /\ outcome = "completed" => times_looped = calls[RefinerAgent]

\* C23 (amended): the loop's counter starts at 0, never decreases, stays
\* within 0..max_iterations, and goes up by one exactly when the refiner
\* returns without the exit signal; the iteration in which the refiner calls
\* exit_loop is not counted, so a run ended by the sentinel in iteration k
\* leaves the counter at k-1.
C23_Counter ==
  /\ times_looped = 0
  /\ [][/\ times_looped' \in 0..max_iterations
        /\ times_looped' \in {times_looped, times_looped + 1}
        /\ (times_looped' = times_looped + 1) <=> (Returns(RefinerAgent) /\ ~escalate')
        /\ (Returns(RefinerAgent) /\ escalate') =>
             /\ times_looped' = times_looped
             /\ times_looped' + 1 = calls[CriticAgent]
             /\ outcome' = "completed"]_vars

C23_Witness ==
  /\ outcome = "completed"
  /\ escalate
  /\ calls[CriticAgent] = 3
  /\ times_looped = 2
  /\ Criticism = COMPLETION_PHRASE

FieldsFilled(form) ==
  /\ form.full_name # ""
  /\ form.email # ""
  /\ form.password # EmptyText
  /\ form.confirm_password # EmptyText

SentWithToken == {i \in 1..Len(requests_sent) : requests_sent[i].authorization # None}

\* C24: the three session fields start as (False, None, None) and in every
\* state reached by logins, registrations, logouts and page views
\* authenticated is true exactly when user_token is not None, user_data being
\* not None then and None otherwise; they change only all together, to a
\* token and a user on a login or registration that succeeds, and back to
\* (False, None, None) on logout.
C24_SessionFieldsTogether ==
  /\ session_vars = <<FALSE, None, None>>
  /\ [][/\ authenticated' <=> (user_token' # None)
        /\ authenticated' <=> (user_data' # None)
        /\ (session_vars' # session_vars) =>
             \/ /\ session_vars = <<FALSE, None, None>>
                /\ submitted'.form \in {"login", "register"}
                /\ last_response'.ok
                /\ session_vars' = <<TRUE, Some(last_response'.json["access_token"]),
                                     Some(UserIn(last_response'.json))>>
             \/ /\ authenticated
                /\ submitted'.form = "none"
                /\ session_vars' = <<FALSE, None, None>>]_vars

C24_Witness ==
  /\ session_vars = <<FALSE, None, None>>
  /\ screen = "authenticate_user"
  /\ submitted.form = "none"
  /\ last_response.ok
  /\ "access_token" \in DOMAIN last_response.json

\* C25: a login or registration whose request was sent and failed (a request
\* error or an HTTP error status, for which _make_request returns {}), or
\* whose answer has no access_token, leaves authenticated, user_token and
\* user_data as they were, and the session is still not authenticated.
C25_FailedAuthLeavesSession ==
  [][(/\ submitted'.form \in {"login", "register"}
      /\ requests_sent' # << >>
      /\ (~last_response'.ok \/ "access_token" \notin DOMAIN last_response'.json)) =>
        /\ UNCHANGED session_vars
        /\ session_vars' = <<FALSE, None, None>>
        /\ screen' = "authenticate_user"]_vars

C25_Witness ==
  /\ submitted.form = "register"
  /\ requests_sent = <<AuthRequest("/auth/register")>>
  /\ ~last_response.ok
  /\ "access_token" \in DOMAIN last_response.json
  /\ session_vars = <<FALSE, None, None>>
  /\ shown = "Registration failed. Please try again."

\* C26: a script run that starts and ends with the session not authenticated
\* renders the authentication screen only and sends no request with a bearer
\* token; a page is rendered only with authenticated true, and a request
\* with a bearer token is sent only by a run that found authenticated true,
\* the token being the session's.
C26_PagesOnlyWhenAuthenticated ==
  [][/\ (~authenticated /\ ~authenticated') =>
          /\ screen' = "authenticate_user"
          /\ \A i \in 1..Len(requests_sent') : requests_sent'[i].authorization = None
     /\ (screen' \in Pages) => authenticated'
     /\ (\E i \in 1..Len(requests_sent') : requests_sent'[i].authorization # None) =>
          /\ authenticated /\ authenticated'
          /\ user_token # None
          /\ \A i \in 1..Len(requests_sent') :
               requests_sent'[i].authorization = Some(user_token)]_vars

C26_Witness ==
  /\ authenticated
  /\ screen = "job_search"
  /\ Len(requests_sent) = 2
  /\ SentWithToken = {1, 2}
  /\ requests_sent[1].authorization = Some(user_token)

\* C27: a registration form submitted with a field empty, or with a password
\* that differs from its confirmation, or with a password shorter than 8
\* characters, sends no request and leaves the three session fields as they
\* were; with all fields filled, a password that differs from its
\* confirmation is reported as a mismatch even when it is too short, and one
\* too short is reported as such only when the two are equal.
C27_RegisterValidation ==
  [][(submitted'.form = "register") =>
       /\ (\/ ~FieldsFilled(submitted')
           \/ submitted'.password # submitted'.confirm_password
           \/ Len(submitted'.password) < PasswordMinLength) =>
            /\ requests_sent' = << >>
            /\ UNCHANGED session_vars
            /\ UNCHANGED last_response
       /\ ~FieldsFilled(submitted') => shown' = ""
       /\ (FieldsFilled(submitted')
             /\ submitted'.password # submitted'.confirm_password) =>
            shown' = "Passwords do not match."
       /\ (FieldsFilled(submitted')
             /\ submitted'.password = submitted'.confirm_password
             /\ Len(submitted'.password) < PasswordMinLength) =>
            shown' = "Password must be at least 8 characters long."
       /\ (FieldsFilled(submitted')
             /\ submitted'.password = submitted'.confirm_password
             /\ Len(submitted'.password) >= PasswordMinLength) =>
            requests_sent' = <<AuthRequest("/auth/register")>>]_vars

C27_Witness ==
  /\ submitted.form = "register"
  /\ FieldsFilled(submitted)
  /\ submitted.password # submitted.confirm_password
  /\ Len(submitted.password) < PasswordMinLength
  /\ shown = "Passwords do not match."
  /\ requests_sent = << >>

\* C28: two requests with credentials to the same protected endpoint, with
\* the same body and different tokens, get the same response, and the user
\* the endpoint acts for is user 1, user@example.com, whatever the token.
C28_ResponseIndependentOfToken ==
  /\ \A t \in Credentials :
       /\ get_current_user(t).id = 1
       /\ get_current_user(t).email = "user@example.com"
  /\ (/\ api_last # NoExchange
      /\ api_previous # NoExchange
      /\ api_last.request.credentials # None
      /\ api_previous.request.credentials # None
      /\ api_last.request.endpoint = api_previous.request.endpoint
      /\ api_last.request.body = api_previous.request.body) =>
       api_last.response = api_previous.response
  /\ (api_last # NoExchange
        /\ api_last.request.endpoint = "/profile"
        /\ api_last.request.credentials # None) =>
       (api_last.response.status_code = 200 /\ api_last.response.body.user_id = 1)

C28_Witness ==
  /\ api_last # NoExchange
  /\ api_previous # NoExchange
  /\ api_last.request.endpoint = "/profile"
  /\ api_previous.request.endpoint = "/profile"
  /\ api_last.request.credentials = Some("forged")
  /\ api_previous.request.credentials = Some("mock_jwt_token_12345")
  /\ api_last.response.status_code = 200
  /\ api_last.response = api_previous.response

\* C29: a search request with credentials, a query, page >= 1 and limit in
\* 1..100 is answered with the first job alone when limit is 1 and with both
\* sample jobs, the Python developer's first, otherwise; total is 2, page and
\* limit are those of the request, and has_more is false, also when limit is 1
\* and one job of the two is returned.
C29_SearchJobs ==
  (/\ api_last # NoExchange
   /\ api_last.request.endpoint = "/jobs/search"
   /\ api_last.request.credentials # None
   /\ api_last.request.body.query # ""
   /\ api_last.request.body.page >= 1
   /\ api_last.request.body.limit \in 1..100) =>
    /\ api_last.response.status_code = 200
    /\ Len(api_last.response.body.jobs) =
         (IF api_last.request.body.limit = 1 THEN 1 ELSE 2)
    /\ \A i \in 1..Len(api_last.response.body.jobs) :
         /\ api_last.response.body.jobs[i].id = i
         /\ api_last.response.body.jobs[i] = sample_jobs[i]
    /\ api_last.response.body.jobs[1].title = "Senior Python Developer"
    /\ api_last.response.body.total = 2
    /\ api_last.response.body.page = api_last.request.body.page
    /\ api_last.response.body.limit = api_last.request.body.limit
    /\ api_last.response.body.has_more = FALSE

C29_Witness ==
  /\ api_last # NoExchange
  /\ api_last.request.endpoint = "/jobs/search"
  /\ api_last.request.body.limit = 1
  /\ api_last.request.body.page = 2
  /\ api_last.response.status_code = 200
  /\ Len(api_last.response.body.jobs) = 1
  /\ api_last.response.body.total = 2
  /\ api_last.response.body.has_more = FALSE

====
